---- MODULE Spec2Model ----
(***************************************************************************)
(* British <-> American spelling Dictionary (src/mod.ts).                  *)
(*                                                                         *)
(* A JavaScript string is a sequence of one-character strings.  The two    *)
(* private tables #enGB and #enUS are plain objects ({}): each is modelled *)
(* by its own properties in creation order, and a property read            *)
(* (table[word]) also sees the properties inherited from Object.prototype. *)
(* The key "__proto__", whose assignment depends on the host, is not among *)
(* the words used.                                                         *)
(***************************************************************************)
EXTENDS Integers, Sequences, FiniteSets, TLC

VARIABLES
  enGB,      \* the table #enGB
  enUS,      \* the table #enUS
  built,     \* history: the dataset and the additions the instance was built from
  inserted,  \* history: the keys ever assigned in each table
  adds,      \* history: the pairs given to add since the last call of remove
  last,      \* history: the last call, its arguments and its outcome
  nops,      \* history: the number of calls made since construction
  gen        \* the generator object the latest call of entries() returned

vars == <<enGB, enUS, built, inserted, adds, last, nops, gen>>

-----------------------------------------------------------------------------
(* Characters and the host's case conversions                              *)

LowerLetters ==
  <<"a","b","c","d","e","f","g","h","i","j","k","l","m",
    "n","o","p","q","r","s","t","u","v","w","x","y","z">>

UpperLetters ==
  <<"A","B","C","D","E","F","G","H","I","J","K","L","M",
    "N","O","P","Q","R","S","T","U","V","W","X","Y","Z">>

\* U+0131, LATIN SMALL LETTER DOTLESS I: what "I" lowercases to in Turkish
DotlessI == "dotless-i"

\* the letters as sets, and the position of each letter in its alphabet
UpperSet == {UpperLetters[i] : i \in 1..Len(UpperLetters)}
LowerSet == {LowerLetters[i] : i \in 1..Len(LowerLetters)}
UpperIndex == [c \in UpperSet |-> CHOOSE i \in 1..Len(UpperLetters) : UpperLetters[i] = c]
LowerIndex == [c \in LowerSet |-> CHOOSE i \in 1..Len(LowerLetters) : LowerLetters[i] = c]

IsUpperCh(c) == c \in UpperSet
IsLowerCh(c) == c \in LowerSet
IndexOfUpper(c) == UpperIndex[c]
IndexOfLower(c) == LowerIndex[c]

\* U+00C9 and U+00E9, LATIN LETTER E WITH ACUTE, capital and small: a cased
\* letter outside A-Z, a-z
UpperEAcute == "E-acute"
LowerEAcute == "e-acute"

\* String.prototype.toLowerCase / toUpperCase on one character
chToLowerCase(c) ==
  IF IsUpperCh(c) THEN LowerLetters[IndexOfUpper(c)]
  ELSE IF c = UpperEAcute THEN LowerEAcute
  ELSE c
chToUpperCase(c) ==
  IF IsLowerCh(c) THEN UpperLetters[IndexOfLower(c)]
  ELSE IF c = LowerEAcute THEN UpperEAcute
  ELSE IF c = DotlessI THEN "I"
  ELSE c

\* String.prototype.toLocaleLowerCase(locales) on one character
chToLocaleLowerCase(c, locales) ==
  IF locales = "tr" /\ c = "I" THEN DotlessI ELSE chToLowerCase(c)

toLowerCase(s) == [i \in 1..Len(s) |-> chToLowerCase(s[i])]
toUpperCase(s) == [i \in 1..Len(s) |-> chToUpperCase(s[i])]
toLocaleLowerCase(s, locales) == [i \in 1..Len(s) |-> chToLocaleLowerCase(s[i], locales)]

\* s.charAt(i) and s.slice(i), with JavaScript's 0-based index
charAt(s, i) == IF i < Len(s) THEN <<s[i + 1]>> ELSE <<>>
slice(s, i) == IF i < Len(s) THEN SubSeq(s, i + 1, Len(s)) ELSE <<>>

\* ref >= "A" && ref <= "Z" on a one-character string (UTF-16 code unit order)
CharCode(c) ==
  IF IsUpperCh(c) THEN 64 + IndexOfUpper(c)
  ELSE IF IsLowerCh(c) THEN 96 + IndexOfLower(c)
  ELSE IF c = "(" THEN 40
  ELSE IF c = ")" THEN 41
  ELSE IF c = "0" THEN 48
  ELSE IF c = "1" THEN 49
  ELSE IF c = UpperEAcute THEN 201
  ELSE IF c = LowerEAcute THEN 233
  ELSE 305
isRefUpper(ref) == CharCode(ref) >= CharCode("A") /\ CharCode(ref) <= CharCode("Z")

Min(a, b) == IF a < b THEN a ELSE b

-----------------------------------------------------------------------------
(* _matchCase(input, toMatch): src/mod.ts 32-66                            *)

isTitleCase(toMatch) ==
  /\ charAt(toMatch, 0) = toUpperCase(charAt(toMatch, 0))
  /\ slice(toMatch, 1) = toLowerCase(slice(toMatch, 1))

isAllUpper(toMatch) == toMatch = toUpperCase(toMatch)

isAllLower(toMatch) == toMatch = toLowerCase(toMatch)

\* mixedCase that stops at the pattern's length and drops the surplus
mixedCaseNoSurplus(input, toMatch) ==
  LET lastIdx == Min(Len(input), Len(toMatch))
  IN [i \in 1..lastIdx |->
        LET src == input[i]
            ref == toMatch[i]
        IN IF chToLowerCase(src) = chToLowerCase(ref)
           THEN IF isRefUpper(ref) THEN chToUpperCase(src) ELSE chToLowerCase(src)
           ELSE src]

\* the loop of lines 52-61, then the surplus of lines 62-64
mixedCase(input, toMatch) ==
  LET lastIdx == Min(Len(input), Len(toMatch))
      out == [i \in 1..lastIdx |->
                LET src == input[i]
                    ref == toMatch[i]
                IN IF chToLowerCase(src) = chToLowerCase(ref)
                   THEN IF isRefUpper(ref) THEN chToUpperCase(src) ELSE chToLowerCase(src)
                   ELSE src]
  IN IF Len(input) > Len(toMatch) THEN out \o slice(input, Len(toMatch)) ELSE out

\* _matchCase that tests all-uppercase before Titlecase
_matchCaseUpperFirst(input, toMatch) ==
  IF Len(input) = 0 \/ Len(toMatch) = 0 THEN input
  ELSE IF isAllUpper(toMatch) THEN toUpperCase(input)
  ELSE IF isTitleCase(toMatch)
       THEN toUpperCase(charAt(input, 0)) \o toLowerCase(slice(input, 1))
  ELSE IF isAllLower(toMatch) THEN toLowerCase(input)
  ELSE mixedCase(input, toMatch)

_matchCase(input, toMatch) ==
  IF Len(input) = 0 \/ Len(toMatch) = 0 THEN input
  ELSE IF isTitleCase(toMatch)
       THEN toUpperCase(charAt(input, 0)) \o toLowerCase(slice(input, 1))
  ELSE IF isAllUpper(toMatch) THEN toUpperCase(input)
  ELSE IF isAllLower(toMatch) THEN toLowerCase(input)
  ELSE mixedCase(input, toMatch)

-----------------------------------------------------------------------------
(* Words used as inputs                                                    *)

w_empty == <<>>
w_colour == <<"c","o","l","o","u","r">>
w_color == <<"c","o","l","o","r">>
w_hue == <<"h","u","e">>
w_kolor == <<"k","o","l","o","r">>
w_fibre == <<"f","i","b","r","e">>
w_fiber == <<"f","i","b","e","r">>
w_Gaol == <<"G","a","o","l">>
w_Jail == <<"J","a","i","l">>
w_gaol == <<"g","a","o","l">>
w_jail == <<"j","a","i","l">>
w_x == <<"x">>
w_ex == <<"e","x">>
w_1 == <<"1">>
w_0 == <<"0">>
w_one == <<"o","n","e">>
w_paren == <<"h","u","e","(">>
w_constructor == <<"c","o","n","s","t","r","u","c","t","o","r">>
w_toString == <<"t","o","S","t","r","i","n","g">>
w_valueOf == <<"v","a","l","u","e","O","f">>
w_COLOUR == toUpperCase(w_colour)
w_Colour == <<"C","o","l","o","u","r">>
w_coLour == <<"c","o","L","o","u","r">>
w_COLOR == toUpperCase(w_color)
w_FIBRE == toUpperCase(w_fibre)
w_GAOL == toUpperCase(w_gaol)
w_X == <<"X">>
w_Constructor == <<"C","o","n","s","t","r","u","c","t","o","r">>
w_unknownword == <<"u","n","k","n","o","w","n","w","o","r","d">>

-----------------------------------------------------------------------------
(* JavaScript values a property read on a table can produce                *)

\* undefined
JsUndefined == [t |-> "undefined", arr |-> <<>>]
\* a table entry: the array [counterpart, regex]; the regex is kept as its source
JsArray(tuple) == [t |-> "array", arr |-> tuple]
\* a function inherited from Object.prototype
JsFunction == [t |-> "function", arr |-> <<>>]

\* ToBoolean: `if (entry)`, `!entry`
Truthy(v) == v.t # "undefined"

\* a ?? b
Nullish(a, b) == IF a.t = "undefined" THEN b ELSE a

\* `v[0]` (lines 146, 151, 157, 162): the counterpart of an entry, undefined
\* on a function
IndexZero(v) ==
  IF v.t = "array" THEN [defined |-> TRUE, str |-> v.arr[1]]
  ELSE [defined |-> FALSE, str |-> <<>>]

\* `const [x] = v` (lines 193, 218) needs an iterable
Iterable(v) == v.t = "array"

-----------------------------------------------------------------------------
(* The tables: Record<string, [string, RegExp]> held in a plain object {}. *)
(* A table is the sequence of its own properties in creation order; a read *)
(* table[key] also sees what every plain object inherits.                  *)

\* names every plain object inherits from Object.prototype (all are functions)
ObjectPrototypeNames == {w_constructor, w_toString, w_valueOf}

\* {}
EmptyTable == <<>>

HasOwn(table, key) == \E i \in 1..Len(table) : table[i].key = key
OwnIndex(table, key) == CHOOSE i \in 1..Len(table) : table[i].key = key

\* table[key]
Get(table, key) ==
  IF HasOwn(table, key) THEN JsArray(table[OwnIndex(table, key)].val)
  ELSE IF key \in ObjectPrototypeNames THEN JsFunction
  ELSE JsUndefined

\* table[key] = tuple: creates the own property, or overwrites it in place
Set(table, key, tuple) ==
  IF HasOwn(table, key)
  THEN [table EXCEPT ![OwnIndex(table, key)].val = tuple]
  ELSE Append(table, [key |-> key, val |-> tuple])

\* delete table[key]: removes an own property, never an inherited one
Delete(table, key) == SelectSeq(table, LAMBDA e : e.key # key)

-----------------------------------------------------------------------------
(* new RegExp(source, "gmi"), lines 121-122                                *)

\* depth of open groups after reading s, or -1 once a ")" had no "(" to close
RECURSIVE GroupDepth(_, _)
GroupDepth(s, depth) ==
  IF depth < 0 THEN depth
  ELSE IF s = <<>> THEN depth
  ELSE IF Head(s) = "(" THEN GroupDepth(Tail(s), depth + 1)
  ELSE IF Head(s) = ")" THEN GroupDepth(Tail(s), depth - 1)
  ELSE GroupDepth(Tail(s), depth)

\* the constructor throws a SyntaxError on an unterminated or unmatched group
RegExpThrows(source) == GroupDepth(source, 0) # 0

-----------------------------------------------------------------------------
(* Dictionary: the operations on a pair of tables                          *)

Tables(gbTable, usTable) == [enGB |-> gbTable, enUS |-> usTable]

\* add that writes the GB table only
addWithoutReverse(tables, gb, us) ==
  IF RegExpThrows(gb) \/ RegExpThrows(us)
  THEN [enGB |-> tables.enGB, enUS |-> tables.enUS, threw |-> TRUE]
  ELSE [enGB |-> Set(tables.enGB, gb, <<us, gb>>), enUS |-> tables.enUS, threw |-> FALSE]

\* add({gb, us}), lines 120-124.  The right-hand side of line 121 is built
\* (and may throw) before the GB table is written; line 122 runs after it.
add(tables, gb, us) ==
  IF RegExpThrows(gb)
  THEN [enGB |-> tables.enGB, enUS |-> tables.enUS, threw |-> TRUE]
  ELSE IF RegExpThrows(us)
  THEN [enGB |-> Set(tables.enGB, gb, <<us, gb>>), enUS |-> tables.enUS, threw |-> TRUE]
  ELSE [enGB |-> Set(tables.enGB, gb, <<us, gb>>),
        enUS |-> Set(tables.enUS, us, <<gb, us>>),
        threw |-> FALSE]

\* removeKeys with the fallback key lowercased without the locale
removeKeysIgnoringLocale(tables, word, locales) ==
  LET cleanedWord == toLowerCase(word)
      Undef == [defined |-> FALSE, str |-> <<>>]
      Str(s) == [defined |-> TRUE, str |-> s]
      enGbExact == Get(tables.enGB, word)
      enUsExact == Get(tables.enUS, word)
      enGbLower == Get(tables.enGB, cleanedWord)
      enUsLower == Get(tables.enUS, cleanedWord)
  IN IF Truthy(enGbExact) THEN [gbKey |-> Str(word), usKey |-> IndexZero(enGbExact)]
     ELSE IF Truthy(enUsExact) THEN [gbKey |-> IndexZero(enUsExact), usKey |-> Str(word)]
     ELSE IF Truthy(enGbLower) THEN [gbKey |-> Str(cleanedWord), usKey |-> IndexZero(enGbLower)]
     ELSE IF Truthy(enUsLower) THEN [gbKey |-> IndexZero(enUsLower), usKey |-> Str(cleanedWord)]
     ELSE [gbKey |-> Undef, usKey |-> Undef]

\* remove(word, locales), lines 135-171: the keys it resolves (lines 139-166)
\* as [gbKey, usKey], each a <<defined, string>> record
removeKeys(tables, word, locales) ==
  LET cleanedWord == toLocaleLowerCase(word, locales)
      Undef == [defined |-> FALSE, str |-> <<>>]
      Str(s) == [defined |-> TRUE, str |-> s]
      enGbExact == Get(tables.enGB, word)
      enUsExact == Get(tables.enUS, word)
      enGbLower == Get(tables.enGB, cleanedWord)
      enUsLower == Get(tables.enUS, cleanedWord)
  IN IF Truthy(enGbExact) THEN [gbKey |-> Str(word), usKey |-> IndexZero(enGbExact)]
     ELSE IF Truthy(enUsExact) THEN [gbKey |-> IndexZero(enUsExact), usKey |-> Str(word)]
     ELSE IF Truthy(enGbLower) THEN [gbKey |-> Str(cleanedWord), usKey |-> IndexZero(enGbLower)]
     ELSE IF Truthy(enUsLower) THEN [gbKey |-> IndexZero(enUsLower), usKey |-> Str(cleanedWord)]
     ELSE [gbKey |-> Undef, usKey |-> Undef]

\* `if (key) delete table[key]`, lines 168-169: undefined and "" are falsy
deleteIfKey(table, k) ==
  IF k.defined /\ Len(k.str) > 0 THEN Delete(table, k.str) ELSE table

remove(tables, word, locales) ==
  IF Len(toLocaleLowerCase(word, locales)) = 0 THEN Tables(tables.enGB, tables.enUS)
  ELSE LET keys == removeKeys(tables, word, locales)
       IN Tables(deleteIfKey(tables.enGB, keys.gbKey), deleteIfKey(tables.enUS, keys.usKey))

\* a call's outcome: the string returned, or a TypeError thrown
Returned(s) == [ok |-> TRUE, val |-> s]
Thrown == [ok |-> FALSE, val |-> <<>>]

\* the body shared by #translateGBToUS (190-195) and #translateUSToGB (215-220)
translate(table, word, matchCase) ==
  LET entry == Nullish(Get(table, word), Get(table, toLowerCase(word)))
  IN IF ~Truthy(entry) THEN Returned(word)
     ELSE IF ~Iterable(entry) THEN Thrown
     ELSE LET target == entry.arr[1]
          IN Returned(IF matchCase THEN _matchCase(target, word) ELSE target)

translateGBToUS(tables, word, matchCase) == translate(tables.enGB, word, matchCase)

translateUSToGB(tables, word, matchCase) == translate(tables.enUS, word, matchCase)

\* Object.entries order of own keys: array indices ascending, then the other
\* keys in creation order.  Of the words used here only "0" and "1" are indices.
IsArrayIndex(key) == key \in {w_0, w_1}
ArrayIndexValue(key) == IF key = w_0 THEN 0 ELSE 1

RECURSIVE InsertIndexKey(_, _)
InsertIndexKey(sorted, e) ==
  IF sorted = <<>> THEN <<e>>
  ELSE IF ArrayIndexValue(e.key) < ArrayIndexValue(Head(sorted).key) THEN <<e>> \o sorted
  ELSE <<Head(sorted)>> \o InsertIndexKey(Tail(sorted), e)

RECURSIVE IndexKeysSorted(_)
IndexKeysSorted(own) ==
  IF own = <<>> THEN <<>>
  ELSE IF IsArrayIndex(Head(own).key)
       THEN InsertIndexKey(IndexKeysSorted(Tail(own)), Head(own))
       ELSE IndexKeysSorted(Tail(own))

ObjectEntries(table) ==
  IndexKeysSorted(table) \o SelectSeq(table, LAMBDA e : ~IsArrayIndex(e.key))

\* the body of entries(), lines 185-187: the [gb, us] pairs of the array that
\* Object.entries(this.#enGB) returns when the loop starts
entries(tables) ==
  LET es == ObjectEntries(tables.enGB)
  IN [i \in 1..Len(es) |-> <<es[i].key, es[i].val[1]>>]

\* constructor, lines 101-110: add every dataset pair, then every addition
RECURSIVE addAll(_, _)
addAll(state, pairs) ==
  IF pairs = <<>> \/ state.threw THEN state
  ELSE addAll(add(Tables(state.enGB, state.enUS), Head(pairs)[1], Head(pairs)[2]), Tail(pairs))

constructor(dataset, additions) ==
  addAll([enGB |-> EmptyTable, enUS |-> EmptyTable, threw |-> FALSE], dataset \o additions)

-----------------------------------------------------------------------------
(* Inputs and bounds                                                       *)

\* number of calls made on an instance after its construction
MaxOps == 2

\* the static dataset (./data.ts): lowercase GB spelling -> lowercase US spelling
Data == << <<w_colour, w_color>>, <<w_fibre, w_fiber>> >>

\* the `additions` argument of the constructor
InitialAdditions == { <<>>, << <<w_colour, w_hue>> >> }

\* the pairs given to add
AddPairs ==
  { <<w_colour, w_hue>>, <<w_kolor, w_color>>, <<w_Gaol, w_Jail>>, <<w_gaol, w_jail>>,
    <<w_colour, w_empty>>, <<w_empty, w_color>>, <<w_colour, w_paren>>, <<w_paren, w_color>>,
    <<w_1, w_one>>, <<w_x, w_ex>>, <<w_constructor, w_hue>> }

\* the (word, locales) arguments given to remove; "" is the default locale
RemoveArgs ==
  { <<w, "">> : w \in { w_colour, w_COLOUR, w_color, w_hue, w_kolor, w_Gaol, w_gaol, w_Jail,
                        w_empty, w_0, w_x, w_X, w_fibre, w_FIBRE, w_constructor, w_Constructor, w_1 } }
  \cup { <<w_FIBRE, "tr">>, <<w_fibre, "tr">>, <<w_COLOUR, "tr">> }

\* the words given to gbToUs and usToGb
TranslateWords ==
  { w_colour, w_COLOUR, w_Colour, w_coLour, w_color, w_COLOR, w_hue, w_Gaol, w_gaol, w_GAOL,
    w_Jail, w_jail, w_empty, w_x, w_X, w_0, w_1, w_constructor, w_Constructor, w_valueOf,
    w_fibre, w_fiber, w_FIBRE, w_kolor, w_paren, w_one, w_ex, w_unknownword }

\* the word lists given to the array overloads
TranslateLists ==
  { <<>>, <<w_colour, w_fibre, w_unknownword>>, <<w_color, w_unknownword, w_color>>,
    <<w_constructor, w_colour>> }

-----------------------------------------------------------------------------
(* State machine                                                           *)

curr == Tables(enGB, enUS)

\* the last call: its name, arguments and outcome, and the tables before it
NoCall ==
  [op |-> "none", gb |-> <<>>, us |-> <<>>, word |-> <<>>, locales |-> "",
   matchCase |-> FALSE, words |-> <<>>,
   input |-> <<>>, toMatch |-> <<>>,
   result |-> Returned(<<>>), results |-> <<>>, pairs |-> <<>>,
   threw |-> FALSE, before |-> Tables(EmptyTable, EmptyTable)]

Range(seq) == {seq[i] : i \in 1..Len(seq)}

\* a generator object of entries(): its state ("suspendedStart" before the
\* first next(), "suspendedYield" between pairs, "completed" after the last),
\* the array the loop of line 185 runs over, the number of pairs yielded, and
\* as history the tables at the call of entries()
NoGenerator ==
  [state |-> "none", arr |-> <<>>, idx |-> 0, atCall |-> Tables(EmptyTable, EmptyTable)]

\* new Dictionary(additions) over the dataset d; an instance exists only if
\* the constructor returned
New(d, additions) ==
  LET made == constructor(d, additions)
  IN /\ ~made.threw
     /\ enGB = made.enGB
     /\ enUS = made.enUS
     /\ built = [data |-> d, additions |-> additions]
     /\ inserted = [gb |-> {pr[1] : pr \in Range(d \o additions)},
                    us |-> {pr[2] : pr \in Range(d \o additions)}]
     /\ adds = Range(d \o additions)
     /\ last = [NoCall EXCEPT !.op = "new"]
     /\ nops = 0
     /\ gen = NoGenerator

Init == \E additions \in InitialAdditions : New(Data, additions)

Add(gb, us) ==
  LET after == add(curr, gb, us)
  IN /\ nops < MaxOps
     /\ enGB' = after.enGB
     /\ enUS' = after.enUS
     /\ inserted' = [gb |-> IF ~RegExpThrows(gb) THEN inserted.gb \cup {gb} ELSE inserted.gb,
                     us |-> IF ~after.threw THEN inserted.us \cup {us} ELSE inserted.us]
     /\ adds' = adds \cup {<<gb, us>>}
     /\ last' = [NoCall EXCEPT !.op = "add", !.gb = gb, !.us = us,
                               !.threw = after.threw, !.before = curr]
     /\ nops' = nops + 1
     /\ UNCHANGED <<built, gen>>

Remove(word, locales) ==
  LET after == remove(curr, word, locales)
  IN /\ nops < MaxOps
     /\ enGB' = after.enGB
     /\ enUS' = after.enUS
     /\ last' = [NoCall EXCEPT !.op = "remove", !.word = word, !.locales = locales,
                               !.before = curr]
     /\ adds' = {}
     /\ nops' = nops + 1
     /\ UNCHANGED <<built, inserted, gen>>

\* gbToUs that caches under the given word the entry it found through the
\* lowercased word
GbToUsCaching(word, matchCase) ==
  LET r == translateGBToUS(curr, word, matchCase)
      entry == Get(enGB, toLowerCase(word))
  IN /\ nops < MaxOps
     /\ enGB' = IF ~HasOwn(enGB, word) /\ Iterable(entry) THEN Set(enGB, word, entry.arr) ELSE enGB
     /\ last' = [NoCall EXCEPT !.op = "gbToUs", !.word = word, !.matchCase = matchCase,
                               !.result = r, !.threw = ~r.ok, !.before = curr]
     /\ nops' = nops + 1
     /\ UNCHANGED <<enUS, built, inserted, adds, gen>>

\* gbToUs(word, matchCase), lines 208-213, string overload
GbToUs(word, matchCase) ==
  LET r == translateGBToUS(curr, word, matchCase)
  IN /\ nops < MaxOps
     /\ last' = [NoCall EXCEPT !.op = "gbToUs", !.word = word, !.matchCase = matchCase,
                               !.result = r, !.threw = ~r.ok, !.before = curr]
     /\ nops' = nops + 1
     /\ UNCHANGED <<enGB, enUS, built, inserted, adds, gen>>

\* usToGb(word, matchCase), lines 233-238, string overload
UsToGb(word, matchCase) ==
  LET r == translateUSToGB(curr, word, matchCase)
  IN /\ nops < MaxOps
     /\ last' = [NoCall EXCEPT !.op = "usToGb", !.word = word, !.matchCase = matchCase,
                               !.result = r, !.threw = ~r.ok, !.before = curr]
     /\ nops' = nops + 1
     /\ UNCHANGED <<enGB, enUS, built, inserted, adds, gen>>

\* words.map(f), lines 210 and 235: the array of the strings f returns, or no
\* array at all when a call of f throws
map(outcomes) ==
  IF \E i \in 1..Len(outcomes) : ~outcomes[i].ok
  THEN [threw |-> TRUE, arr |-> <<>>]
  ELSE [threw |-> FALSE, arr |-> [i \in 1..Len(outcomes) |-> outcomes[i].val]]

\* gbToUs(words, matchCase), array overload: words.map(...)
GbToUsArray(words, matchCase) ==
  LET rs == map([i \in 1..Len(words) |-> translateGBToUS(curr, words[i], matchCase)])
  IN /\ nops < MaxOps
     /\ last' = [NoCall EXCEPT !.op = "gbToUsArray", !.words = words, !.matchCase = matchCase,
                               !.results = rs.arr,
                               !.threw = rs.threw,
                               !.before = curr]
     /\ nops' = nops + 1
     /\ UNCHANGED <<enGB, enUS, built, inserted, adds, gen>>

\* usToGb(words, matchCase), array overload
UsToGbArray(words, matchCase) ==
  LET rs == map([i \in 1..Len(words) |-> translateUSToGB(curr, words[i], matchCase)])
  IN /\ nops < MaxOps
     /\ last' = [NoCall EXCEPT !.op = "usToGbArray", !.words = words, !.matchCase = matchCase,
                               !.results = rs.arr,
                               !.threw = rs.threw,
                               !.before = curr]
     /\ nops' = nops + 1
     /\ UNCHANGED <<enGB, enUS, built, inserted, adds, gen>>

\* entries(), line 184: a generator function; the call returns a generator
\* object and runs none of the body
Entries ==
  /\ nops < MaxOps
  /\ gen' = [NoGenerator EXCEPT !.state = "suspendedStart", !.atCall = curr]
  /\ last' = [NoCall EXCEPT !.op = "entries", !.before = curr]
  /\ nops' = nops + 1
  /\ UNCHANGED <<enGB, enUS, built, inserted, adds>>

\* next() on the generator object.  The first one evaluates
\* Object.entries(this.#enGB) (line 185), an array of the table as it is then;
\* each one runs the loop to the next yield (line 186), or to the end.
EntriesNext ==
  LET arr == IF gen.state = "suspendedStart" THEN entries(curr) ELSE gen.arr
  IN /\ gen.state \in {"suspendedStart", "suspendedYield"}
     /\ IF gen.idx < Len(arr)
        THEN /\ gen' = [gen EXCEPT !.state = "suspendedYield", !.arr = arr, !.idx = gen.idx + 1]
             /\ last' = [NoCall EXCEPT !.op = "next", !.pairs = <<arr[gen.idx + 1]>>,
                                       !.before = curr]
        ELSE /\ gen' = [gen EXCEPT !.state = "completed", !.arr = arr]
             /\ last' = [NoCall EXCEPT !.op = "next", !.before = curr]
     /\ UNCHANGED <<enGB, enUS, built, inserted, adds, nops>>

Next ==
  \/ \E p \in AddPairs : Add(p[1], p[2])
  \/ \E a \in RemoveArgs : Remove(a[1], a[2])
  \/ \E w \in TranslateWords, m \in BOOLEAN : GbToUs(w, m)
  \/ \E w \in TranslateWords, m \in BOOLEAN : UsToGb(w, m)
  \/ \E ws \in TranslateLists, m \in BOOLEAN : GbToUsArray(ws, m)
  \/ \E ws \in TranslateLists, m \in BOOLEAN : UsToGbArray(ws, m)
  \/ Entries
  \/ EntriesNext

Spec == Init /\ [][Next]_vars

-----------------------------------------------------------------------------
(* The constructor over every well-formed dataset                          *)

\* number of pairs in a dataset
MaxData == 2

\* lowercase, non-empty words a dataset is made of
SeedWords == { w_colour, w_color, w_fibre, w_x, w_constructor }

\* the shape the constructor relies on: keys unique, values unique
WellFormed(d) ==
  \A i, j \in 1..Len(d) : i # j => (d[i][1] # d[j][1] /\ d[i][2] # d[j][2])

Datasets ==
  { d \in UNION { [1..n -> SeedWords \X SeedWords] : n \in 0..MaxData } : WellFormed(d) }

InitSeed == \E d \in Datasets, additions \in InitialAdditions : New(d, additions)

\* translations asked of the instance as constructed
NextSeed ==
  \/ \E w \in SeedWords \cup {w_hue}, m \in BOOLEAN : last.op = "new" /\ GbToUs(w, m)
  \/ \E w \in SeedWords \cup {w_hue}, m \in BOOLEAN : last.op = "new" /\ UsToGb(w, m)

SpecSeed == InitSeed /\ [][NextSeed]_vars

-----------------------------------------------------------------------------
(* _matchCase on its own, over every pair of short strings                 *)

\* length of the strings given to _matchCase
MaxLen == 3

\* two forms of one letter, another letter, a character without case, and a
\* capital letter outside A-Z
CaseAlphabet == {"a", "A", "b", "1", UpperEAcute}

Strings == UNION { [1..n -> CaseAlphabet] : n \in 0..MaxLen }

\* stored words with a letter outside A-Z, a-z: the dotless i
DotlessWords == { <<DotlessI>>, <<"a", DotlessI>>, <<DotlessI, "b">> }

\* stored words with the small e with acute
AccentWords == { <<LowerEAcute>>, <<"b", LowerEAcute>> }

InitCase ==
  /\ enGB = EmptyTable
  /\ enUS = EmptyTable
  /\ built = [data |-> <<>>, additions |-> <<>>]
  /\ inserted = [gb |-> {}, us |-> {}]
  /\ adds = {}
  /\ nops = 0
  /\ gen = NoGenerator
  /\ \E input \in Strings \cup DotlessWords \cup AccentWords, toMatch \in Strings :
       last = [NoCall EXCEPT !.op = "pending", !.input = input, !.toMatch = toMatch]

MatchCase ==
  /\ last.op = "pending"
  /\ last' = [last EXCEPT !.op = "_matchCase",
                          !.result = Returned(_matchCase(last.input, last.toMatch))]
  /\ UNCHANGED <<enGB, enUS, built, inserted, adds, nops, gen>>

NextCase == MatchCase

SpecCase == InitCase /\ [][NextCase]_vars

-----------------------------------------------------------------------------
(* Claims                                                                  *)

\* C1: unknown words pass through and never fail.  In every reachable state,
\* every word w such that neither w nor lowercase(w) was ever inserted as a
\* key of the table consulted is returned unchanged by gbToUs and by usToGb,
\* for both values of matchCase, and no error is raised.
C1_UnknownWordsPassThrough ==
  \A w \in TranslateWords, m \in BOOLEAN :
    /\ (w \notin inserted.gb /\ toLowerCase(w) \notin inserted.gb)
         => translateGBToUS(curr, w, m) = Returned(w)
    /\ (w \notin inserted.us /\ toLowerCase(w) \notin inserted.us)
         => translateUSToGB(curr, w, m) = Returned(w)

\* C2: add then translate.  Immediately after add({gb: g, us: u}) the pair is
\* visible in both directions: gbToUs(g, false) = u and usToGb(u, false) = g.
C2_AddThenTranslate ==
  last.op = "add" =>
    /\ translateGBToUS(curr, last.gb, FALSE) = Returned(last.us)
    /\ translateUSToGB(curr, last.us, FALSE) = Returned(last.gb)

\* the lookup of lines 191 / 216 finds an entry for word
Found(table, word) == Iterable(Nullish(Get(table, word), Get(table, toLowerCase(word))))

\* a character that is an uppercase letter: it has another, lowercase form
IsUpperLetter(c) == chToLowerCase(c) # c

\* casing classes as the claims and section 4.1 word them: a string that
\* equals its own uppercase form, one that equals its own lowercase form, and
\* one whose first letter is upper and whose rest is lower
AllUpperPattern(p) == \A i \in 1..Len(p) : p[i] = chToUpperCase(p[i])
AllLowerPattern(p) == \A i \in 1..Len(p) : p[i] = chToLowerCase(p[i])
TitlecaseInput(w) ==
  /\ Len(w) > 0
  /\ IsUpperLetter(w[1])
  /\ \A i \in 2..Len(w) : w[i] = chToLowerCase(w[i])
Titlecased(t) ==
  [i \in 1..Len(t) |-> IF i = 1 THEN chToUpperCase(t[i]) ELSE chToLowerCase(t[i])]

\* C3: case mirroring of whole-word patterns through translate.  With
\* matchCase = true a found word yields mirrorCase(t, word) from the original
\* input; an ALL-UPPERCASE input yields uppercase(t), an all-lowercase input
\* lowercase(t), a Titlecase input (first letter upper, rest lower) the
\* titlecased t, in both directions.  (The empty word belongs to no class.)
C3_MirrorsWholeWordPatterns ==
  \A table \in {enGB, enUS}, w \in TranslateWords :
    (Found(table, w) /\ Len(w) > 0) =>
      LET t == translate(table, w, FALSE).val
          r == translate(table, w, TRUE)
      IN /\ r = Returned(_matchCase(t, w))
         /\ AllUpperPattern(w) => r.val = toUpperCase(t)
         /\ AllLowerPattern(w) => r.val = toLowerCase(t)
         /\ TitlecaseInput(w) => r.val = Titlecased(t)

\* the key remove(word, locales) matches in a table and the table it is in,
\* by the resolution order: the word in GB, in US, then its lowercased form
\* (an empty word is not looked up)
MatchOf(tables, word, locales) ==
  LET lw == toLocaleLowerCase(word, locales)
  IN IF Len(lw) = 0 THEN [side |-> "none", key |-> <<>>]
     ELSE IF HasOwn(tables.enGB, word) THEN [side |-> "gb", key |-> word]
     ELSE IF HasOwn(tables.enUS, word) THEN [side |-> "us", key |-> word]
     ELSE IF HasOwn(tables.enGB, lw) THEN [side |-> "gb", key |-> lw]
     ELSE IF HasOwn(tables.enUS, lw) THEN [side |-> "us", key |-> lw]
     ELSE [side |-> "none", key |-> <<>>]

Counterpart(table, key) == table[OwnIndex(table, key)].val[1]

\* C4: remove deletes both sides of the pair.  If remove(w) matches a key k
\* in the GB table with recorded counterpart u, then afterwards k is not a key
\* of the GB table and u is not a key of the US table; symmetrically when the
\* match is in the US table.
C4_RemoveDeletesBothSides ==
  last.op = "remove" =>
    LET m == MatchOf(last.before, last.word, last.locales)
    IN /\ m.side = "gb" =>
            /\ ~HasOwn(enGB, m.key)
            /\ ~HasOwn(enUS, Counterpart(last.before.enGB, m.key))
       /\ m.side = "us" =>
            /\ ~HasOwn(enUS, m.key)
            /\ ~HasOwn(enGB, Counterpart(last.before.enUS, m.key))

\* the pair of the latest add: the call itself, or the constructor's last one
LatestAdd ==
  IF last.op = "add" THEN <<last.gb, last.us>>
  ELSE built.additions[Len(built.additions)]

\* C5: override precedence with a stale reverse entry.  After add(g, u1)
\* followed by add(g, u2), u2 # u1, with no remove in between:
\* gbToUs(g, false) = u2, usToGb(u2, false) = g and usToGb(u1, false) = g.
C5_OverrideKeepsStaleReverse ==
  (last.op = "add" \/ (last.op = "new" /\ built.additions # <<>>)) =>
    LET g == LatestAdd[1]
        u2 == LatestAdd[2]
    IN \A p \in adds :
         (p[1] = g /\ p[2] # u2) =>
           /\ translateGBToUS(curr, g, FALSE) = Returned(u2)
           /\ translateUSToGB(curr, u2, FALSE) = Returned(g)
           /\ translateUSToGB(curr, p[2], FALSE) = Returned(g)

\* C6: round trip on the seed dataset.  For a dictionary constructed with no
\* initial overrides from a dataset whose keys and values are each unique,
\* non-empty and lowercase, every dataset pair (gb, us) has
\* gbToUs(gb, false) = us and usToGb(us, false) = gb, hence
\* usToGb(gbToUs(gb, false), false) = gb.
C6_SeedRoundTrip ==
  built.additions = <<>> =>
    \A i \in 1..Len(built.data) :
      LET gb == built.data[i][1]
          us == built.data[i][2]
      IN /\ translateGBToUS(curr, gb, FALSE) = Returned(us)
         /\ translateUSToGB(curr, us, FALSE) = Returned(gb)
         /\ translateUSToGB(curr, translateGBToUS(curr, gb, FALSE).val, FALSE) = Returned(gb)

\* C6 witness: a two-pair dataset in which one word is the US spelling of the
\* first pair and the GB spelling of the second, built without overrides, and
\* usToGb of that word has just returned the first pair's GB spelling.
C6_Witness ==
  /\ built = [data |-> << <<w_colour, w_color>>, <<w_color, w_x>> >>, additions |-> <<>>]
  /\ last.op = "usToGb" /\ last.word = w_color /\ ~last.matchCase
  /\ last.result = Returned(w_colour)

\* C7: exact key before lowercase fallback, with no key normalisation.  A word
\* that is a key yields that key's entry, even when its lowercase form is a
\* key as well; otherwise a word whose lowercase form is a key yields that
\* entry; otherwise the word passes through unchanged.
C7_ExactKeyBeforeLowercase ==
  \A table \in {enGB, enUS}, w \in TranslateWords, m \in BOOLEAN :
    LET r == translate(table, w, m)
        Cased(t) == IF m THEN _matchCase(t, w) ELSE t
    IN IF HasOwn(table, w) THEN r = Returned(Cased(Counterpart(table, w)))
       ELSE IF HasOwn(table, toLowerCase(w))
            THEN r = Returned(Cased(Counterpart(table, toLowerCase(w))))
       ELSE r = Returned(w)

\* C8: remove of a non-existent word is a silent no-op.  If neither the word
\* nor its locale-lowercased form is a key of the GB table or of the US table,
\* remove(word, locales) leaves both tables exactly as they were.
C8_RemoveAbsentIsNoOp ==
  last.op = "remove" =>
    LET b == last.before
        lw == toLocaleLowerCase(last.word, last.locales)
    IN (/\ ~HasOwn(b.enGB, last.word) /\ ~HasOwn(b.enGB, lw)
        /\ ~HasOwn(b.enUS, last.word) /\ ~HasOwn(b.enUS, lw))
       => (/\ curr = b
           /\ ~last.threw
           /\ \A w \in TranslateWords, m \in BOOLEAN :
                /\ translateGBToUS(curr, w, m) = translateGBToUS(b, w, m)
                /\ translateUSToGB(curr, w, m) = translateUSToGB(b, w, m))

\* C8 witness: remove("FIBRE", "tr") has just run on tables that hold the key
\* "fibre": the Turkish lowercase form is not a key, and nothing was removed.
C8_Witness ==
  /\ last.op = "remove" /\ last.word = w_FIBRE /\ last.locales = "tr"
  /\ HasOwn(last.before.enGB, toLowerCase(w_FIBRE))
  /\ ~HasOwn(last.before.enGB, toLocaleLowerCase(w_FIBRE, "tr"))
  /\ HasOwn(enGB, w_fibre)
  /\ translateGBToUS(curr, w_fibre, FALSE) = Returned(w_fiber)

\* the Titlecase pattern of section 4.1, rule 1 (first character uppercase,
\* the rest lowercase), and the mixed pattern of rule 4 (none of rules 1-3)
TitlecasePattern(p) ==
  /\ p[1] = chToUpperCase(p[1])
  /\ \A i \in 2..Len(p) : p[i] = chToLowerCase(p[i])
MixedPattern(p) ==
  Len(p) > 0 /\ ~TitlecasePattern(p) /\ ~AllUpperPattern(p) /\ ~AllLowerPattern(p)

\* C9: mixed-case per-character transfer.  For a pattern that is neither
\* Titlecase, all-uppercase nor all-lowercase, the result has at each index
\* below both lengths the candidate's character in the pattern character's
\* case when the two are the same letter ignoring case, and the candidate's
\* character unchanged when they differ; the candidate's characters at or
\* beyond the pattern's length follow verbatim.
C9_MixedCaseTransfer ==
  (last.op = "_matchCase" /\ Len(last.input) > 0 /\ MixedPattern(last.toMatch)) =>
    LET c == last.input
        p == last.toMatch
        r == last.result.val
    IN /\ last.result.ok
       /\ Len(r) = Len(c)
       /\ \A i \in 1..Len(c) :
            IF i > Len(p) THEN r[i] = c[i]
            ELSE IF chToLowerCase(c[i]) = chToLowerCase(p[i])
                 THEN r[i] = (IF IsUpperLetter(p[i]) THEN chToUpperCase(c[i])
                              ELSE chToLowerCase(c[i]))
            ELSE r[i] = c[i]
       /\ _matchCase(w_color, w_coLour) = <<"c","o","L","o","r">>
       /\ _matchCase(<<"a","i","r","p","l","a","n","e">>,
                     <<"A","e","R","o","p","L","a","N","e">>)
            = <<"A","i","R","p","l","a","n","e">>
       /\ _matchCase(w_colour, <<"C","o","l","o","R">>) = w_Colour

\* C10: with case matching disabled the result is always lowercase.  For every
\* word found in the table consulted, gbToUs(word, false) and
\* usToGb(word, false) return an all-lowercase string.
C10_NoMatchCaseIsLowercase ==
  \A table \in {enGB, enUS}, w \in TranslateWords :
    Found(table, w) =>
      LET r == translate(table, w, FALSE)
      IN r.ok /\ r.val = toLowerCase(r.val)

\* C11: add is unconditional and never fails.  For every pair of strings
\* (gb, us), add({gb, us}) raises no error, stores gb -> us in the GB table
\* and us -> gb in the US table exactly as given, overwrites any entry under
\* the same exact key, and leaves every other key as it was.
C11_AddNeverFails ==
  last.op = "add" =>
    /\ ~last.threw
    /\ HasOwn(enGB, last.gb) /\ Counterpart(enGB, last.gb) = last.us
    /\ HasOwn(enUS, last.us) /\ Counterpart(enUS, last.us) = last.gb
    /\ Cardinality({i \in 1..Len(enGB) : enGB[i].key = last.gb}) = 1
    /\ Cardinality({i \in 1..Len(enUS) : enUS[i].key = last.us}) = 1
    /\ Delete(enGB, last.gb) = Delete(last.before.enGB, last.gb)
    /\ Delete(enUS, last.us) = Delete(last.before.enUS, last.us)

\* the keys of a table with their counterparts, in the order the keys were
\* created (a key deleted and added again is created anew)
InsertionOrder(table) == [i \in 1..Len(table) |-> <<table[i].key, table[i].val[1]>>]

\* C12: entries() reflects the GB table in insertion order.  Each call yields
\* exactly one (gb, us) pair per key currently in the GB table, with the value
\* currently stored under it, in the order in which the keys were inserted,
\* for every key string; it reflects the state at the time of the call, and
\* it never yields a pair that is only in the US table.
C12_EntriesInInsertionOrder ==
  gen.state = "completed" =>
    /\ gen.arr = InsertionOrder(gen.atCall.enGB)
    /\ \A i \in 1..Len(gen.arr) : HasOwn(gen.atCall.enGB, gen.arr[i][1])

\* C13: the array overload is element-wise.  For every sequence ws and both
\* directions, translate(ws, m) has the same length as ws and its i-th element
\* equals translate(ws[i], m) on the same state: order is preserved, unknown
\* words stay in place unchanged, no element depends on another.
C13_ArrayElementWise ==
  last.op \in {"gbToUsArray", "usToGbArray"} =>
    LET table == IF last.op = "gbToUsArray" THEN last.before.enGB ELSE last.before.enUS
        ws == last.words
    IN /\ ~last.threw
       /\ Len(last.results) = Len(ws)
       /\ \A i \in 1..Len(ws) :
            /\ Returned(last.results[i]) = translate(table, ws[i], last.matchCase)
            /\ (ws[i] \notin inserted.gb \cup inserted.us
                /\ toLowerCase(ws[i]) \notin inserted.gb \cup inserted.us)
                 => last.results[i] = ws[i]

\* C14: remove resolution order and extent.  remove(w) tries w as an exact GB
\* key, w as an exact US key, the locale-lowercased w as a GB key, then as a
\* US key, and stops at the first match; it then deletes the matched key and
\* the single counterpart key recorded under it in the other table, and
\* nothing else: any other key, whatever it maps to, stays in place.
C14_RemoveOrderAndExtent ==
  last.op = "remove" =>
    LET b == last.before
        m == MatchOf(b, last.word, last.locales)
    IN IF m.side = "gb"
       THEN curr = Tables(Delete(b.enGB, m.key), Delete(b.enUS, Counterpart(b.enGB, m.key)))
       ELSE IF m.side = "us"
       THEN curr = Tables(Delete(b.enGB, Counterpart(b.enUS, m.key)), Delete(b.enUS, m.key))
       ELSE curr = b

\* C15: Titlecase takes precedence for single-letter patterns.  For a pattern
\* consisting of one uppercase letter and any non-empty candidate, the result
\* is uppercase(candidate[0]) + lowercase(candidate[1:]), not
\* uppercase(candidate); so a one-letter uppercase input that translates to a
\* longer target yields the Titlecased target.
C15_SingleLetterTitlecase ==
  (/\ last.op = "_matchCase"
   /\ Len(last.toMatch) = 1 /\ IsUpperLetter(last.toMatch[1])
   /\ Len(last.input) > 0) =>
    LET c == last.input
        p == last.toMatch
        r == last.result.val
        table == Set(EmptyTable, toLowerCase(p), <<c, toLowerCase(p)>>)
    IN /\ last.result.ok
       /\ Len(r) = Len(c)
       /\ r[1] = chToUpperCase(c[1])
       /\ \A i \in 2..Len(c) : r[i] = chToLowerCase(c[i])
       /\ translate(table, p, TRUE) = Returned(r)

\* C15 witness: _matchCase("bAb", "A") has returned "Bab", which is not the
\* uppercase "BAB".
C15_Witness ==
  /\ last.op = "_matchCase"
  /\ last.input = <<"b","A","b">> /\ last.toMatch = <<"A">>
  /\ last.result = Returned(<<"B","a","b">>)
  /\ last.result.val # toUpperCase(last.input)

\* C16: an all-lowercase pattern lowercases the whole text.  For every
\* non-empty pattern that equals its own lowercase form, including patterns
\* that contain or begin with characters that have no case, and every
\* non-empty candidate, the result is lowercase(candidate).
C16_AllLowerPatternLowercases ==
  (/\ last.op = "_matchCase"
   /\ Len(last.toMatch) > 0 /\ Len(last.input) > 0
   /\ AllLowerPattern(last.toMatch)) =>
    last.result = Returned([i \in 1..Len(last.input) |-> chToLowerCase(last.input[i])])

\* C17: lookups skip empty words.  In every state reachable by add and
\* remove, including those where a pair with an empty gb or us was added,
\* gbToUs("", m) and usToGb("", m) return "" for both values of matchCase: an
\* entry stored under the empty key is never returned by a translation.
C17_LookupsSkipEmptyWords ==
  \A m \in BOOLEAN :
    /\ translateGBToUS(curr, w_empty, m) = Returned(w_empty)
    /\ translateUSToGB(curr, w_empty, m) = Returned(w_empty)

\* a string over the letters A-Z, a-z and characters that have no case
AsciiWord(s) == \A i \in 1..Len(s) : CharCode(s[i]) < 128

\* the mirrored string r differs from the candidate c in case only
CaseOnly(r, c) ==
  /\ Len(r) = Len(c)
  /\ [i \in 1..Len(r) |-> chToLowerCase(r[i])] = [i \in 1..Len(c) |-> chToLowerCase(c[i])]

\* translate(word, true) and translate(word, false) on a table that holds the
\* target under the word are equal ignoring case
TranslationsCaseOnly(word, target) ==
  LET table == Set(EmptyTable, word, <<target, word>>)
      cased == translate(table, word, TRUE)
      plain == translate(table, word, FALSE)
  IN cased.ok /\ plain.ok /\ plain.val = target /\ CaseOnly(cased.val, plain.val)

\* C18 as stated: case mirroring changes case only.  For all strings candidate
\* and pattern over letters and caseless characters, mirrorCase(candidate,
\* pattern) has the length of candidate and equals it when both are
\* lowercased; so for every found word translate(word, true) and
\* translate(word, false) are equal ignoring case.
C18_CaseMirroringChangesCaseOnly ==
  last.op = "_matchCase" =>
    /\ last.result.ok
    /\ CaseOnly(last.result.val, last.input)
    /\ TranslationsCaseOnly(last.toMatch, last.input)

\* C18 amended: as C18, for candidates (stored targets) over the letters A-Z,
\* a-z and caseless characters, and every pattern.
C18_CaseMirroringChangesCaseOnlyAmended ==
  (last.op = "_matchCase" /\ AsciiWord(last.input)) =>
    /\ last.result.ok
    /\ CaseOnly(last.result.val, last.input)
    /\ TranslationsCaseOnly(last.toMatch, last.input)

\* C18 witness: _matchCase("bab", "bA") has returned "bAb", which has the
\* candidate's length and lowercases to it, and is not the candidate.
C18_Witness ==
  /\ last.op = "_matchCase"
  /\ last.input = <<"b","a","b">> /\ last.toMatch = <<"b","A">>
  /\ AsciiWord(last.input)
  /\ last.result.val # last.input
  /\ CaseOnly(last.result.val, last.input)

\* the calls that only read
Reads == {"gbToUs", "usToGb", "gbToUsArray", "usToGbArray", "entries", "next"}

\* C19: reads do not mutate.  gbToUs, usToGb (scalar and array forms, both
\* matchCase values, found or unknown words) and entries() leave the GB table
\* and the US table unchanged, so the same call made again with no add or
\* remove in between has the same outcome.
C19_ReadsDoNotMutate ==
  last.op \in Reads =>
    /\ curr = last.before
    /\ last.op = "gbToUs" => translateGBToUS(curr, last.word, last.matchCase) = last.result
    /\ last.op = "usToGb" => translateUSToGB(curr, last.word, last.matchCase) = last.result
    /\ last.op = "gbToUsArray" =>
         map([i \in 1..Len(last.words) |-> translateGBToUS(curr, last.words[i], last.matchCase)])
           = [threw |-> last.threw, arr |-> last.results]
    /\ last.op = "usToGbArray" =>
         map([i \in 1..Len(last.words) |-> translateUSToGB(curr, last.words[i], last.matchCase)])
           = [threw |-> last.threw, arr |-> last.results]
    /\ (last.op = "next" /\ gen.idx = 1 /\ gen.state = "suspendedYield") =>
         (gen.arr = entries(curr) /\ last.pairs = <<entries(curr)[1]>>)

\* C19 witness: after an add that overrode colour -> hue, gbToUs("COLOUR",
\* true) has found the entry through the lowercased word and returned "HUE",
\* and the GB table still has no key "COLOUR".
C19_Witness ==
  /\ last.op = "gbToUs" /\ last.word = w_COLOUR /\ last.matchCase
  /\ last.result = Returned(toUpperCase(w_hue))
  /\ nops = 2
  /\ ~HasOwn(enGB, w_COLOUR) /\ HasOwn(enGB, w_colour)
  /\ curr = last.before

\* C20: add is all-or-nothing.  A call add({gb, us}) either updates both
\* tables (GB gets gb -> us and US gets us -> gb) or, if it raises an error,
\* leaves both tables exactly as they were before the call.
C20_AddAllOrNothing ==
  last.op = "add" =>
    IF last.threw THEN curr = last.before
    ELSE /\ Get(enGB, last.gb) = JsArray(<<last.us, last.gb>>)
         /\ Get(enUS, last.us) = JsArray(<<last.gb, last.us>>)

====
